---- MODULE Spec2Model ----
(***************************************************************************)
(* telllm: the per-connection session engine (src/src/session.rs) and the  *)
(* per-client conversation log (src/src/logger.rs).                        *)
(*                                                                         *)
(* Text is modelled as a sequence of one-character strings, so that trim,  *)
(* splitn, lines, to_lowercase and starts_with are computed as the code    *)
(* computes them.  Fixed literals that the code only ever concatenates     *)
(* (the system prompt, the name instruction, the replies sent to the       *)
(* client) are single elements.                                            *)
(***************************************************************************)
EXTENDS Naturals, Sequences, FiniteSets, TLC

(***************************************************************************)
(* Bounds of the model.                                                    *)
(***************************************************************************)
\* chat lines the sessions send to the completion service, in total
MaxChats == 2
\* last value of the wall clock
MaxClock == 1
\* clock ticks in one calendar day
TicksPerDay == 1
\* logger operations applied in a row when the logger is exercised alone
MaxOps == 2

(***************************************************************************)
(* Characters and strings.                                                 *)
(***************************************************************************)
Upper == <<"A","B","C","D","E","F","G","H","I","J","K","L","M",
           "N","O","P","Q","R","S","T","U","V","W","X","Y","Z">>
Lower == <<"a","b","c","d","e","f","g","h","i","j","k","l","m",
           "n","o","p","q","r","s","t","u","v","w","x","y","z">>
Digits == <<"0","1","2","3","4","5","6","7","8","9">>

\* char::is_whitespace for the characters that occur
WhiteSpace == {" ", "\t", "\r", "\n"}

ToLowerChar(c) ==
  IF \E i \in 1..Len(Upper) : Upper[i] = c
  THEN Lower[CHOOSE i \in 1..Len(Upper) : Upper[i] = c]
  ELSE c

ToUpperChar(c) ==
  IF \E i \in 1..Len(Lower) : Lower[i] = c
  THEN Upper[CHOOSE i \in 1..Len(Lower) : Lower[i] = c]
  ELSE c

\* str::to_lowercase
ToLower(str) == [i \in 1..Len(str) |-> ToLowerChar(str[i])]

\* str::to_uppercase
ToUpper(str) == [i \in 1..Len(str) |-> ToUpperChar(str[i])]

\* str::trim: leading and trailing whitespace removed
Trim(str) ==
  LET keep == {i \in 1..Len(str) : str[i] \notin WhiteSpace}
  IN  IF keep = {} THEN <<>>
      ELSE LET lo == CHOOSE i \in keep : \A j \in keep : i <= j
               hi == CHOOSE i \in keep : \A j \in keep : j <= i
           IN  SubSeq(str, lo, hi)

\* str::starts_with
StartsWith(str, prefix) ==
  /\ Len(prefix) <= Len(str)
  /\ SubSeq(str, 1, Len(prefix)) = prefix

\* index of the first occurrence of pat in str, 0 when there is none
Find(str, pat) ==
  LET hits == {i \in 1..(Len(str) + 1 - Len(pat)) :
                 SubSeq(str, i, i + Len(pat) - 1) = pat}
  IN  IF Len(pat) > Len(str) \/ hits = {} THEN 0
      ELSE CHOOSE i \in hits : \A j \in hits : i <= j

\* str::splitn(2, pat) collected: one part when pat does not occur, else the
\* text before its first occurrence and the text after it
SplitN2(str, pat) ==
  LET at == Find(str, pat)
  IN  IF at = 0 THEN <<str>>
      ELSE <<SubSeq(str, 1, at - 1), SubSeq(str, at + Len(pat), Len(str))>>

\* a trailing carriage return removed (the "\r\n" line ending)
StripCR(str) ==
  IF Len(str) > 0 /\ str[Len(str)] = "\r" THEN SubSeq(str, 1, Len(str) - 1)
  ELSE str

\* str::lines: split at "\n" or "\r\n"; the final line ending is optional
RECURSIVE Lines(_)
Lines(text) ==
  IF text = <<>> THEN <<>>
  ELSE LET nl == Find(text, <<"\n">>)
       IN  IF nl = 0 THEN <<text>>
           ELSE <<StripCR(SubSeq(text, 1, nl - 1))>>
                  \o Lines(SubSeq(text, nl + 1, Len(text)))

\* Vec<String>::join(sep)
RECURSIVE Join(_, _)
Join(strs, sep) ==
  IF strs = <<>> THEN <<>>
  ELSE IF Len(strs) = 1 THEN strs[1]
  ELSE strs[1] \o sep \o Join(Tail(strs), sep)

\* Option<T>: None is the empty sequence, Some(x) the sequence of x alone
None == <<>>
Some(x) == <<x>>
IsSome(o) == o # <<>>
Unwrap(o) == o[1]

(***************************************************************************)
(* Wall clock: chrono::Local::now() rendered by the two formats the logger *)
(* uses.  A timestamp has a date part, a space and a time part holding a   *)
(* colon, as "%d-%m-%Y %H:%M:%S" has.                                      *)
(***************************************************************************)
DayOf(t) == t \div TicksPerDay
DateStr(t) == <<"d", Digits[DayOf(t) + 1]>>
TimeStr(t) == <<"0", ":", Digits[(t % TicksPerDay) + 1]>>
Timestamp(t) == DateStr(t) \o <<" ">> \o TimeStr(t)

(***************************************************************************)
(* Conversation log (logger.rs).  A transcript file is the sequence of the *)
(* lines appended to it; every line also records the connection that wrote *)
(* it (by) and the chat line it was logged for (chat, 0 for a marker),     *)
(* which are bookkeeping and not part of the file.  The summary file is    *)
(* its text, or absent.                                                    *)
(***************************************************************************)
Days == 0..(MaxClock \div TicksPerDay)

KeyName == <<"n","a","m","e">>
KeyLastSeen == <<"l","a","s","t","_","s","e","e","n">>
KeySep == <<":", " ">>

NoFile == [exists |-> FALSE, text |-> <<>>]
FileOf(text) == [exists |-> TRUE, text |-> text]

\* fs::read_to_string(path).unwrap_or_default()
ReadOrDefault(file) == IF file.exists THEN file.text ELSE <<>>

\* ChatLogger::get_summary
GetSummary(file) == IF file.exists THEN Some(file.text) ELSE None

\* ChatLogger::new: the date of the transcript file is fixed at construction
NewCurrentDate(t) == DateStr(t)

\* ChatLogger::chat_file_path: the day whose file the logger appends to
ChatFileDay(date) == CHOOSE d \in Days : DateStr(d * TicksPerDay) = date

\* log_message that opens the file for writing, not for appending
LogMessage_Rewrite(files, date, role, content, t, who, n) ==
  [files EXCEPT ![ChatFileDay(date)] =
     <<[kind |-> "msg", stamp |-> TimeStr(t), role |-> ToUpper(role),
        content |-> content, by |-> who, chat |-> n]>>]

\* ChatLogger::log_message: "[HH:MM:SS] ROLE: content"
LogMessage(files, date, role, content, t, who, n) ==
  [files EXCEPT ![ChatFileDay(date)] =
     Append(@, [kind |-> "msg", stamp |-> TimeStr(t), role |-> ToUpper(role),
                content |-> content, by |-> who, chat |-> n])]

\* ChatLogger::log_session_start
LogSessionStart(files, date, t, who) ==
  [files EXCEPT ![ChatFileDay(date)] =
     Append(@, [kind |-> "start", stamp |-> Timestamp(t), role |-> <<>>,
                content |-> <<>>, by |-> who, chat |-> 0])]

\* ChatLogger::log_session_end
EndMarker(t, who) ==
  [kind |-> "end", stamp |-> Timestamp(t), role |-> <<>>, content |-> <<>>, by |-> who,
   chat |-> 0]

LogSessionEnd(files, date, t, who) ==
  [files EXCEPT ![ChatFileDay(date)] = Append(@, EndMarker(t, who))]

\* the filter_map of update_summary and touch_last_seen: the lines that split
\* at ": " into two parts, as (key, value) pairs; other lines are dropped
ParseEntries(text) ==
  LET ls == Lines(text)
      good == SelectSeq(ls, LAMBDA l : Len(SplitN2(l, KeySep)) = 2)
  IN  [i \in 1..Len(good) |-> SplitN2(good[i], KeySep)]

\* entries written back as "k:v", without the space that the parser splits at
FormatEntries_NoSpace(entries) ==
  Join([i \in 1..Len(entries) |-> entries[i][1] \o <<":">> \o entries[i][2]], <<"\n">>)
    \o <<"\n">>

\* entries written back: "k: v" joined by "\n", and a final "\n"
FormatEntries(entries) ==
  Join([i \in 1..Len(entries) |-> entries[i][1] \o KeySep \o entries[i][2]], <<"\n">>)
    \o <<"\n">>

\* update_summary, "Update or add the key": the first entry whose key equals
\* key ignoring case gets the value, else (key, value) is pushed
UpsertKey(entries, key, value) ==
  LET hits == {i \in 1..Len(entries) : ToLower(entries[i][1]) = ToLower(key)}
  IN  IF hits = {} THEN Append(entries, <<key, value>>)
      ELSE LET i == CHOOSE i \in hits : \A j \in hits : i <= j
           IN  [entries EXCEPT ![i] = <<entries[i][1], value>>]

\* "Update or add last_seen": the first entry whose key is exactly last_seen
RefreshLastSeen(entries, now) ==
  LET hits == {i \in 1..Len(entries) : entries[i][1] = KeyLastSeen}
  IN  IF hits = {} THEN Append(entries, <<KeyLastSeen, now>>)
      ELSE LET i == CHOOSE i \in hits : \A j \in hits : i <= j
           IN  [entries EXCEPT ![i] = <<entries[i][1], now>>]

\* update_summary that sets the key and leaves last_seen as it was
UpdateSummaryText_NoRefresh(existing, key, value, t) ==
  FormatEntries(UpsertKey(ParseEntries(existing), key, value))

\* ChatLogger::update_summary: the text it writes, from the text it read
UpdateSummaryText(existing, key, value, t) ==
  FormatEntries(RefreshLastSeen(UpsertKey(ParseEntries(existing), key, value),
                                Timestamp(t)))

\* touch_last_seen that rewrites the entries without refreshing last_seen
TouchLastSeenText_NoRefresh(existing, t) == FormatEntries(ParseEntries(existing))

\* touch_last_seen that writes last_seen alone, losing the other entries
TouchLastSeenText_OnlyLastSeen(existing, t) ==
  FormatEntries(<< <<KeyLastSeen, Timestamp(t)>> >>)

\* ChatLogger::touch_last_seen: the text it writes, from the text it read
TouchLastSeenText(existing, t) ==
  FormatEntries(RefreshLastSeen(ParseEntries(existing), Timestamp(t)))

\* fs::write that succeeds: the file holds exactly the new text
WriteOk(text) == FileOf(text)

\* fs::write that fails: the file could not be opened (it is as before), or it
\* was created or truncated and the write failed (the text is far shorter than
\* a block of the file system, so none of it is written)
WriteFailed(old, text) == {old, FileOf(<<>>)}

\* Session::run, "Load existing summary to get user name": the value of the
\* last line that starts with "name:" ignoring case
RECURSIVE LoadNameFrom(_, _)
LoadNameFrom(ls, found) ==
  IF ls = <<>> THEN found
  ELSE LET line == Head(ls)
       IN  IF StartsWith(ToLower(line), <<"n","a","m","e",":">>)
           THEN LoadNameFrom(Tail(ls), Some(Trim(SplitN2(line, <<":">>)[2])))
           ELSE LoadNameFrom(Tail(ls), found)

LoadUserName(file) ==
  IF IsSome(GetSummary(file)) THEN LoadNameFrom(Lines(Unwrap(GetSummary(file))), None)
  ELSE None

(***************************************************************************)
(* Session (session.rs).                                                   *)
(***************************************************************************)
\* the connections of one client address, each served by its own run()
Conns == {1, 2}

\* --system-prompt (main.rs), one literal
BasePrompt == <<"You are a helpful AI assistant. Be concise and friendly.">>
NameInstrHead == "\n\nThe user's name is "
NameInstrTail == ". Address them by name when appropriate."

\* SessionState::build_system_prompt
BuildSystemPrompt(base, name) ==
  IF IsSome(name)
  THEN base \o <<NameInstrHead>> \o Unwrap(name) \o <<NameInstrTail>>
  ELSE base

Msg(role, content) == [role |-> role, content |-> content]

\* SessionState::new: the messages vector it builds
NewMessages(base, name) == <<Msg("system", BuildSystemPrompt(base, name))>>

\* update_user_name that appends the instruction to the prompt already there
UpdateUserNameMessages_Accumulate(msgs, name, base) ==
  IF msgs # <<>>
  THEN [msgs EXCEPT ![1] = Msg(msgs[1].role,
                               msgs[1].content \o <<NameInstrHead>> \o name
                                 \o <<NameInstrTail>>)]
  ELSE msgs

\* SessionState::update_user_name: the messages vector after it
UpdateUserNameMessages(msgs, name, base) ==
  IF msgs # <<>>
  THEN [msgs EXCEPT ![1] = Msg(msgs[1].role, BuildSystemPrompt(base, Some(name)))]
  ELSE msgs

\* /clear that truncates to nothing
ClearMessages_Empty(msgs) == SubSeq(msgs, 1, 0)

\* /clear that rebuilds the conversation from the base prompt, losing the name
ClearMessages_BasePrompt(msgs) == <<Msg("system", BuildSystemPrompt(BasePrompt, None))>>

\* Vec::truncate(1) of /clear
ClearMessages(msgs) == SubSeq(msgs, 1, IF Len(msgs) < 1 THEN Len(msgs) ELSE 1)

\* the user turn pushed for a chat line
PushUser(msgs, input) == Append(msgs, Msg("user", input))

\* a reply that is shown and logged but not stored
PushAssistant_Dropped(msgs, response) == msgs

\* the assistant turn pushed for a reply
PushAssistant(msgs, response) == Append(msgs, Msg("assistant", response))

\* handle_command: the command token, lowercased, and the trimmed argument
CmdOf(input) == ToLower(SplitN2(input, <<" ">>)[1])
ArgOf(input) ==
  LET parts == SplitN2(input, <<" ">>)
  IN  IF Len(parts) = 2 THEN Some(Trim(parts[2])) ELSE None

\* handle_command that matches the command token as typed
CommandKind_CaseSensitive(input) ==
  LET cmd == SplitN2(input, <<" ">>)[1]
  IN  IF cmd \in {<<"/","q","u","i","t">>, <<"/","e","x","i","t">>, <<"/","q">>}
        THEN "quit"
      ELSE IF cmd = <<"/","n","a","m","e">> THEN "name"
      ELSE IF cmd = <<"/","c","l","e","a","r">> THEN "clear"
      ELSE IF cmd \in {<<"/","h","e","l","p">>, <<"/","?">>} THEN "help"
      ELSE "unknown"

\* handle_command: the arm of the match that the command token selects
CommandKind(input) ==
  LET cmd == CmdOf(input)
  IN  IF cmd \in {<<"/","q","u","i","t">>, <<"/","e","x","i","t">>, <<"/","q">>}
        THEN "quit"
      ELSE IF cmd = <<"/","n","a","m","e">> THEN "name"
      ELSE IF cmd = <<"/","c","l","e","a","r">> THEN "clear"
      ELSE IF cmd \in {<<"/","h","e","l","p">>, <<"/","?">>} THEN "help"
      ELSE "unknown"

\* a loop that sends a command it does not recognise to the completion service
LineKind_UnknownIsChat(raw) ==
  LET input == Trim(raw)
  IN  IF input = <<>> THEN "empty"
      ELSE IF input[1] = "/" /\ CommandKind(input) # "unknown" THEN CommandKind(input)
      ELSE "chat"

\* Session::run: how the loop treats the line it read
LineKind(raw) ==
  LET input == Trim(raw)
  IN  IF input = <<>> THEN "empty"
      ELSE IF input[1] = "/" THEN CommandKind(input)
      ELSE "chat"

\* what the session writes to the client
WelcomeBanner == "<WELCOME_BANNER>"
Prompt == "\nYou: "
BarePrompt == "You: "
Thinking == "\nAI: (thinking...)\r"
Goodbye == "\nGoodbye!\n"
HelpText == "\nCommands: ...\n"
UsageText == "\nUsage: /name <your name>\n"
ClearedText == "\nConversation cleared.\n"

GreetingOut(name) ==
  <<WelcomeBanner>>
    \o (IF IsSome(name) THEN <<"\nWelcome back, ">> \o Unwrap(name) \o <<"!\n\n">>
        ELSE <<>>)
    \o <<Prompt>>
NameSetOut(name) == <<"\nName set to: ">> \o name \o <<"\n", Prompt>>
NameErrorOut(e) == <<"\nError saving name: ", e, "\n", Prompt>>
UnknownOut(cmd) == <<"\nUnknown command: ">> \o cmd \o <<"\n", Prompt>>
ReplyOut(response) == <<"AI: ">> \o response \o <<"\n", Prompt>>
LlmErrorOut(e) == <<"AI: Sorry, I encountered an error: ">> \o e \o <<"\n", Prompt>>

\* the display name a user line is logged under
DisplayName(name) == IF IsSome(name) THEN Unwrap(name) ELSE <<"U","s","e","r">>
AiLabel == <<"A","I">>

(***************************************************************************)
(* The environment: what a client may send, what the completion service    *)
(* may answer, what earlier sessions left on disk.                         *)
(***************************************************************************)
InputLines ==
  { <<" ","y","o"," ","\r","\n">>,
    <<" ","\r","\n">>,
    <<"/","n","a","m","e"," ","A","l","\n">>,
    <<"/","N","A","M","E"," "," ","B","o","\r","\n">>,
    <<"/","n","a","m","e"," ","\n">>,
    <<"/","c","l","e","a","r","\n">>,
    <<"/","h","e","l","p","\n">>,
    <<"/","?","\n">>,
    <<"/","F","o","o"," ","x","\n">>,
    <<"/","q","u","i","t","\n">>,
    <<"/","E","x","i","t","\r","\n">>,
    <<"/","q","\n">> }

\* the input lines the loop treats as kind
LinesOfKind == [k \in {"empty", "chat", "quit", "name", "clear", "help", "unknown"} |->
                  {l \in InputLines : LineKind(l) = k}]

Replies == { <<"o","k">> }

\* LlmClient::chat: the descriptions of its failures
LlmErrors == { <<"LLM API error 500: overloaded">> }

SummaryWriteError == "Failed to write summary file"

InitSummaries ==
  { NoFile,
    FileOf(KeyName \o KeySep \o <<"A","l">> \o <<"\n">>
             \o KeyLastSeen \o KeySep \o Timestamp(0) \o <<"\n">>) }

VARIABLES
  pc,            \* where run() of each connection is
  line,          \* the line buffer of run(): the line read last
  messages,      \* SessionState.messages
  user_name,     \* SessionState.user_name
  current_date,  \* ChatLogger.current_date
  pending,       \* the summary text a read-modify-write is about to write
  request,       \* the messages handed to LlmClient::chat by the last call
  result,        \* the result of the last LlmClient::chat call
  out,           \* what was written to the client since the last line was read
  err,           \* the error run() returned with
  chat_files,    \* the daily transcript files of the client
  summary,       \* the summary file of the client
  clock,         \* the wall clock
  chat_inputs,   \* history: the chat lines pushed, trimmed
  chat_results,  \* history: the results of the completed calls
  cleared,       \* history: /clear was issued
  saved,         \* history: the name the last /name of the connection stored
                 \* (none: no /name yet, or its update_summary failed)
  unsaved,       \* history: the name of the connection's last /name when its
                 \* update_summary failed, and whether the summary held that
                 \* name before the write (none: no /name yet, or it was stored)
  actor,         \* history: the connection that took the last step (0: none)
  ops            \* history: the logger operations applied, the logger alone

vars == <<pc, line, messages, user_name, current_date, pending, request, result,
          out, err, chat_files, summary, clock, chat_inputs, chat_results,
          cleared, saved, unsaved, actor, ops>>

sessionVars == <<pc, line, messages, user_name, current_date, pending, request,
                 result, out, err, chat_inputs, chat_results, cleared, saved,
                 unsaved>>

Ok(text) == [ok |-> TRUE, text |-> text]
Err(text) == [ok |-> FALSE, text |-> text]

Init ==
  /\ pc = [s \in Conns |-> "idle"]
  /\ line = [s \in Conns |-> <<>>]
  /\ messages = [s \in Conns |-> <<>>]
  /\ user_name = [s \in Conns |-> None]
  /\ current_date = [s \in Conns |-> <<>>]
  /\ pending = [s \in Conns |-> <<>>]
  /\ request = [s \in Conns |-> <<>>]
  /\ result = [s \in Conns |-> None]
  /\ out = [s \in Conns |-> <<>>]
  /\ err = [s \in Conns |-> "none"]
  /\ chat_files = [d \in Days |-> <<>>]
  /\ summary \in InitSummaries
  /\ clock = 0
  /\ chat_inputs = [s \in Conns |-> <<>>]
  /\ chat_results = [s \in Conns |-> <<>>]
  /\ cleared = [s \in Conns |-> FALSE]
  /\ saved = [s \in Conns |-> None]
  /\ unsaved = [s \in Conns |-> None]
  /\ actor = 0
  /\ ops = <<>>

\* run() goes on at next
Goto(s, next) ==
  /\ pc' = [pc EXCEPT ![s] = next]
  /\ err' = err

\* run() returns Err: the connection is closed
Fail(s, why) ==
  /\ pc' = [pc EXCEPT ![s] = "failed"]
  /\ err' = [err EXCEPT ![s] = why]

\* the writes to the client made by one step: all reach the client, or one
\* fails and run() returns the error
Respond(s, ok, next) == IF ok THEN Goto(s, next) ELSE Fail(s, "write")

\* the locals of run() after a step that has set pc': the values given, or
\* nothing once run() has returned and they are dropped.  What the client was
\* sent stays on record when run() returns a storage or read error (o is then
\* what was flushed before the failing call); after a failed write to the
\* client what reached it is not known and nothing is recorded.
Locals(s, l, o, pnd, req, res) ==
  LET gone == pc'[s] \in {"terminated", "failed"}
      lost == pc'[s] = "terminated" \/ (pc'[s] = "failed" /\ err'[s] = "write")
  IN  /\ line' = [line EXCEPT ![s] = IF gone THEN <<>> ELSE l]
      /\ out' = [out EXCEPT ![s] = IF lost THEN <<>> ELSE o]
      /\ pending' = [pending EXCEPT ![s] = IF gone THEN <<>> ELSE pnd]
      /\ request' = [request EXCEPT ![s] = IF gone THEN <<>> ELSE req]
      /\ result' = [result EXCEPT ![s] = IF gone THEN None ELSE res]

\* Session::run up to the loop: logger, start marker, summary, state, banner
Start(s) ==
  /\ pc[s] = "idle"
  /\ actor' = s
  /\ ops' = ops
  /\ saved' = saved
  /\ unsaved' = unsaved
  /\ \E fault \in {"none", "mkdir", "log", "write"} :
       IF fault = "mkdir"
       THEN /\ Fail(s, "mkdir")
            /\ Locals(s, <<>>, <<>>, <<>>, <<>>, None)
            /\ UNCHANGED <<messages, user_name, current_date, chat_files>>
       ELSE /\ current_date' = [current_date EXCEPT ![s] = NewCurrentDate(clock)]
            /\ IF fault = "log"
               THEN /\ Fail(s, "start_marker")
                    /\ Locals(s, <<>>, <<>>, <<>>, <<>>, None)
                    /\ UNCHANGED <<messages, user_name, chat_files>>
               ELSE /\ chat_files' = LogSessionStart(chat_files, NewCurrentDate(clock),
                                                     clock, s)
                    /\ user_name' = [user_name EXCEPT ![s] = LoadUserName(summary)]
                    /\ messages' = [messages EXCEPT ![s] =
                                      NewMessages(BasePrompt, LoadUserName(summary))]
                    /\ Respond(s, fault = "none", "active")
                    /\ Locals(s, <<>>, GreetingOut(LoadUserName(summary)), <<>>, <<>>,
                              None)
  /\ UNCHANGED <<summary, clock, chat_inputs, chat_results, cleared>>

\* read_line returned a line that trims to nothing: re-prompt
EmptyLine(s) ==
  /\ pc[s] = "active"
  /\ actor' = s
  /\ ops' = ops
  /\ saved' = saved
  /\ unsaved' = unsaved
  /\ \E l \in LinesOfKind["empty"], io \in BOOLEAN :
       /\ Respond(s, io, "active")
       /\ Locals(s, l, <<BarePrompt>>, pending[s], request[s], result[s])
  /\ UNCHANGED <<messages, user_name, current_date, chat_files, summary, clock,
                 chat_inputs, chat_results, cleared>>

\* the end of run(), after the loop: the end marker, then touch_last_seen as
\* far as its read of the summary (TouchWrite is its write)
Finish(s, logOk) ==
  IF logOk
  THEN /\ chat_files' = LogSessionEnd(chat_files, current_date[s], clock, s)
       /\ Goto(s, "touch_write")
  ELSE /\ Fail(s, "end_marker")
       /\ UNCHANGED chat_files

\* /quit, /exit, /q: farewell, leave the loop
CmdQuit(s) ==
  /\ pc[s] = "active"
  /\ actor' = s
  /\ ops' = ops
  /\ saved' = saved
  /\ unsaved' = unsaved
  /\ \E l \in LinesOfKind["quit"], fault \in {"none", "write", "log"} :
       /\ IF fault = "write"
          THEN /\ Fail(s, "write")
               /\ UNCHANGED chat_files
          ELSE Finish(s, fault = "none")
       /\ Locals(s, l, <<Goodbye>>, TouchLastSeenText(ReadOrDefault(summary), clock),
                 request[s], result[s])
  /\ UNCHANGED <<messages, user_name, current_date, summary, clock, chat_inputs,
                 chat_results, cleared>>

\* the end of run() whose last_seen touch also stores the session's user name
Eof_StoresName(s) ==
  /\ pc[s] = "active"
  /\ actor' = s
  /\ ops' = ops
  /\ saved' = saved
  /\ unsaved' = unsaved
  /\ \E logOk \in BOOLEAN : Finish(s, logOk)
  /\ Locals(s, <<>>, <<>>,
            IF IsSome(user_name[s])
            THEN UpdateSummaryText(ReadOrDefault(summary), KeyName,
                                   Unwrap(user_name[s]), clock)
            ELSE TouchLastSeenText(ReadOrDefault(summary), clock),
            request[s], result[s])
  /\ UNCHANGED <<messages, user_name, current_date, summary, clock, chat_inputs,
                 chat_results, cleared>>

\* read_line returned Ok(0): the client closed the connection, leave the loop
Eof(s) ==
  /\ pc[s] = "active"
  /\ actor' = s
  /\ ops' = ops
  /\ saved' = saved
  /\ unsaved' = unsaved
  /\ \E logOk \in BOOLEAN : Finish(s, logOk)
  /\ Locals(s, <<>>, <<>>, TouchLastSeenText(ReadOrDefault(summary), clock),
            request[s], result[s])
  /\ UNCHANGED <<messages, user_name, current_date, summary, clock, chat_inputs,
                 chat_results, cleared>>

\* a read error after which the end marker is still written
ReadError_WritesEnd(s) ==
  /\ pc[s] = "active"
  /\ actor' = s
  /\ ops' = ops
  /\ saved' = saved
  /\ unsaved' = unsaved
  /\ Fail(s, "read")
  /\ chat_files' = LogSessionEnd(chat_files, current_date[s], clock, s)
  /\ Locals(s, <<>>, <<>>, <<>>, <<>>, None)
  /\ UNCHANGED <<messages, user_name, current_date, summary, clock, chat_inputs,
                 chat_results, cleared>>

\* read_line returned Err
ReadError(s) ==
  /\ pc[s] = "active"
  /\ actor' = s
  /\ ops' = ops
  /\ saved' = saved
  /\ unsaved' = unsaved
  /\ Fail(s, "read")
  /\ Locals(s, <<>>, <<>>, <<>>, <<>>, None)
  /\ UNCHANGED <<messages, user_name, current_date, chat_files, summary, clock,
                 chat_inputs, chat_results, cleared>>

\* touch_last_seen whose read-modify-write is one step: it writes the summary
\* as it is at the time of the write, with last_seen refreshed
TouchWrite_Atomic(s) ==
  /\ pc[s] = "touch_write"
  /\ actor' = s
  /\ ops' = ops
  /\ saved' = saved
  /\ unsaved' = unsaved
  /\ \E ok \in BOOLEAN :
       IF ok
       THEN /\ summary' = WriteOk(TouchLastSeenText(ReadOrDefault(summary), clock))
            /\ Goto(s, "terminated")
       ELSE /\ summary' \in WriteFailed(summary, pending[s])
            /\ Fail(s, "summary")
  /\ Locals(s, <<>>, out[s], <<>>, <<>>, None)
  /\ UNCHANGED <<messages, user_name, current_date, chat_files, clock, chat_inputs,
                 chat_results, cleared>>

\* touch_last_seen: its write of the summary, and the return of run()
TouchWrite(s) ==
  /\ pc[s] = "touch_write"
  /\ actor' = s
  /\ ops' = ops
  /\ saved' = saved
  /\ unsaved' = unsaved
  /\ \E ok \in BOOLEAN :
       IF ok
       THEN /\ summary' = WriteOk(pending[s])
            /\ Goto(s, "terminated")
       ELSE /\ summary' \in WriteFailed(summary, pending[s])
            /\ Fail(s, "summary")
  /\ Locals(s, <<>>, out[s], <<>>, <<>>, None)
  /\ UNCHANGED <<messages, user_name, current_date, chat_files, clock, chat_inputs,
                 chat_results, cleared>>

\* history: the name connection s could not store, and whether the summary
\* holds that name already when the write is attempted
NotStored(s) ==
  [name |-> Unwrap(user_name[s]), held |-> LoadUserName(summary) = user_name[s]]

\* /name <arg>: update_user_name, then update_summary as far as its read of
\* the summary (NameWrite is its write)
CmdName(s) ==
  /\ pc[s] = "active"
  /\ actor' = s
  /\ ops' = ops
  /\ saved' = saved
  /\ unsaved' = [unsaved EXCEPT ![s] = None]
  /\ Goto(s, "name_write")
  /\ \E l \in LinesOfKind["name"] :
       /\ IsSome(ArgOf(Trim(l)))
       /\ LET name == Unwrap(ArgOf(Trim(l)))
          IN  /\ user_name' = [user_name EXCEPT ![s] = Some(name)]
              /\ messages' = [messages EXCEPT ![s] =
                                UpdateUserNameMessages(@, name, BasePrompt)]
              /\ Locals(s, l, <<>>,
                        UpdateSummaryText(ReadOrDefault(summary), KeyName, name, clock),
                        request[s], result[s])
  /\ UNCHANGED <<current_date, chat_files, summary, clock, chat_inputs, chat_results,
                 cleared>>

\* /name whose summary error is propagated with ? and ends the session
NameWrite_Fatal(s) ==
  /\ pc[s] = "name_write"
  /\ actor' = s
  /\ ops' = ops
  /\ \E ok \in BOOLEAN, io \in BOOLEAN :
       IF ok
       THEN /\ summary' = WriteOk(pending[s])
            /\ saved' = [saved EXCEPT ![s] = user_name[s]]
            /\ unsaved' = [unsaved EXCEPT ![s] = None]
            /\ Respond(s, io, "active")
            /\ Locals(s, line[s], NameSetOut(Unwrap(user_name[s])), <<>>,
                      request[s], result[s])
       ELSE /\ summary' \in WriteFailed(summary, pending[s])
            /\ saved' = [saved EXCEPT ![s] = None]
            /\ unsaved' = [unsaved EXCEPT ![s] = Some(NotStored(s))]
            /\ Fail(s, "summary")
            /\ Locals(s, line[s], <<>>, <<>>, request[s], result[s])
  /\ UNCHANGED <<messages, user_name, current_date, chat_files, clock, chat_inputs,
                 chat_results, cleared>>

\* update_summary: its write of the summary; the message of /name, the prompt
NameWrite(s) ==
  /\ pc[s] = "name_write"
  /\ actor' = s
  /\ ops' = ops
  /\ \E ok \in BOOLEAN, io \in BOOLEAN :
       /\ Respond(s, io, "active")
       /\ IF ok
          THEN /\ summary' = WriteOk(pending[s])
               /\ saved' = [saved EXCEPT ![s] = user_name[s]]
               /\ unsaved' = [unsaved EXCEPT ![s] = None]
               /\ Locals(s, line[s], NameSetOut(Unwrap(user_name[s])), <<>>,
                         request[s], result[s])
          ELSE /\ summary' \in WriteFailed(summary, pending[s])
               /\ saved' = [saved EXCEPT ![s] = None]
               /\ unsaved' = [unsaved EXCEPT ![s] = Some(NotStored(s))]
               /\ Locals(s, line[s], NameErrorOut(SummaryWriteError), <<>>,
                         request[s], result[s])
  /\ UNCHANGED <<messages, user_name, current_date, chat_files, clock, chat_inputs,
                 chat_results, cleared>>

\* /name without an argument: the usage message
CmdNameUsage(s) ==
  /\ pc[s] = "active"
  /\ actor' = s
  /\ ops' = ops
  /\ saved' = saved
  /\ unsaved' = unsaved
  /\ \E l \in LinesOfKind["name"], io \in BOOLEAN :
       /\ ~IsSome(ArgOf(Trim(l)))
       /\ Respond(s, io, "active")
       /\ Locals(s, l, <<UsageText, Prompt>>, pending[s], request[s], result[s])
  /\ UNCHANGED <<messages, user_name, current_date, chat_files, summary, clock,
                 chat_inputs, chat_results, cleared>>

\* /clear: keep only the system prompt
CmdClear(s) ==
  /\ pc[s] = "active"
  /\ actor' = s
  /\ ops' = ops
  /\ saved' = saved
  /\ unsaved' = unsaved
  /\ \E l \in LinesOfKind["clear"], io \in BOOLEAN :
       /\ Respond(s, io, "active")
       /\ Locals(s, l, <<ClearedText, Prompt>>, pending[s], request[s], result[s])
  /\ messages' = [messages EXCEPT ![s] = ClearMessages(@)]
  /\ cleared' = [cleared EXCEPT ![s] = TRUE]
  /\ UNCHANGED <<user_name, current_date, chat_files, summary, clock, chat_inputs,
                 chat_results>>

\* /help, /?: the command list
CmdHelp(s) ==
  /\ pc[s] = "active"
  /\ actor' = s
  /\ ops' = ops
  /\ saved' = saved
  /\ unsaved' = unsaved
  /\ \E l \in LinesOfKind["help"], io \in BOOLEAN :
       /\ Respond(s, io, "active")
       /\ Locals(s, l, <<HelpText, Prompt>>, pending[s], request[s], result[s])
  /\ UNCHANGED <<messages, user_name, current_date, chat_files, summary, clock,
                 chat_inputs, chat_results, cleared>>

\* any other command token
CmdUnknown(s) ==
  /\ pc[s] = "active"
  /\ actor' = s
  /\ ops' = ops
  /\ saved' = saved
  /\ unsaved' = unsaved
  /\ \E l \in LinesOfKind["unknown"], io \in BOOLEAN :
       /\ Respond(s, io, "active")
       /\ Locals(s, l, UnknownOut(CmdOf(Trim(l))), pending[s], request[s], result[s])
  /\ UNCHANGED <<messages, user_name, current_date, chat_files, summary, clock,
                 chat_inputs, chat_results, cleared>>

\* the chat lines the connections have sent to the completion service so far
ChatsSent == Len(chat_inputs[1]) + Len(chat_inputs[2])

\* a chat line whose transcript error is ignored: the call is made although the
\* user line could not be logged
ChatLine_LogNonFatal(s) ==
  /\ pc[s] = "active"
  /\ ChatsSent < MaxChats
  /\ actor' = s
  /\ ops' = ops
  /\ saved' = saved
  /\ unsaved' = unsaved
  /\ \E l \in LinesOfKind["chat"], fault \in {"none", "log", "write"} :
       /\ chat_files' = IF fault = "log" THEN chat_files
                        ELSE LogMessage(chat_files, current_date[s],
                                        DisplayName(user_name[s]), Trim(l), clock, s,
                                        Len(chat_inputs[s]) + 1)
       /\ messages' = [messages EXCEPT ![s] = PushUser(@, Trim(l))]
       /\ chat_inputs' = [chat_inputs EXCEPT ![s] = Append(@, Trim(l))]
       /\ Respond(s, fault # "write", "awaiting")
       /\ Locals(s, l, <<Thinking>>, pending[s], PushUser(messages[s], Trim(l)),
                 result[s])
  /\ UNCHANGED <<user_name, current_date, summary, clock, chat_results, cleared>>

\* a chat line: log it, push the user turn, show the indicator, call the
\* completion service
ChatLine(s) ==
  /\ pc[s] = "active"
  /\ ChatsSent < MaxChats
  /\ actor' = s
  /\ ops' = ops
  /\ saved' = saved
  /\ unsaved' = unsaved
  /\ \E l \in LinesOfKind["chat"], fault \in {"none", "log", "write"} :
       /\ IF fault = "log"
          THEN /\ Fail(s, "log")
               /\ Locals(s, l, <<>>, pending[s], request[s], result[s])
               /\ UNCHANGED <<messages, chat_files, chat_inputs>>
          ELSE /\ chat_files' = LogMessage(chat_files, current_date[s],
                                           DisplayName(user_name[s]), Trim(l), clock, s,
                                           Len(chat_inputs[s]) + 1)
               /\ messages' = [messages EXCEPT ![s] = PushUser(@, Trim(l))]
               /\ chat_inputs' = [chat_inputs EXCEPT ![s] = Append(@, Trim(l))]
               /\ Respond(s, fault = "none", "awaiting")
               /\ Locals(s, l, <<Thinking>>, pending[s],
                         PushUser(messages[s], Trim(l)), result[s])
  /\ UNCHANGED <<user_name, current_date, summary, clock, chat_results, cleared>>

\* LlmClient::chat returned Ok(response)
LlmOk(s) ==
  /\ pc[s] = "awaiting"
  /\ actor' = s
  /\ ops' = ops
  /\ saved' = saved
  /\ unsaved' = unsaved
  /\ \E response \in Replies, fault \in {"none", "write_reply", "log", "write"} :
       /\ chat_results' = [chat_results EXCEPT ![s] = Append(@, Ok(response))]
       /\ IF fault = "write_reply"
          THEN /\ Fail(s, "write")
               /\ UNCHANGED <<chat_files, messages>>
          ELSE IF fault = "log"
          THEN /\ Fail(s, "log")
               /\ UNCHANGED <<chat_files, messages>>
          ELSE /\ chat_files' = LogMessage(chat_files, current_date[s], AiLabel,
                                           response, clock, s, Len(chat_inputs[s]))
               /\ messages' = [messages EXCEPT ![s] = PushAssistant(@, response)]
               /\ Respond(s, fault = "none", "active")
       \* the reply is in the BufWriter until the flush that follows the prompt:
       \* when the AI line cannot be logged it is dropped with the writer
       /\ Locals(s, line[s],
                 IF fault = "log" THEN out[s] ELSE out[s] \o ReplyOut(response),
                 pending[s], request[s], Some(Ok(response)))
  /\ UNCHANGED <<user_name, current_date, summary, clock, chat_inputs, cleared>>

\* a failed completion whose error text is stored as the assistant's turn
LlmErr_PushesReply(s) ==
  /\ pc[s] = "awaiting"
  /\ actor' = s
  /\ ops' = ops
  /\ saved' = saved
  /\ unsaved' = unsaved
  /\ \E e \in LlmErrors, io \in BOOLEAN :
       /\ chat_results' = [chat_results EXCEPT ![s] = Append(@, Err(e))]
       /\ messages' = [messages EXCEPT ![s] = PushAssistant(@, e)]
       /\ Respond(s, io, "active")
       /\ Locals(s, line[s], out[s] \o LlmErrorOut(e), pending[s], request[s],
                 Some(Err(e)))
  /\ UNCHANGED <<user_name, current_date, chat_files, summary, clock, chat_inputs,
                 cleared>>

\* a failed completion whose error text is logged as the AI's line
LlmErr_LogsError(s) ==
  /\ pc[s] = "awaiting"
  /\ actor' = s
  /\ ops' = ops
  /\ saved' = saved
  /\ unsaved' = unsaved
  /\ \E e \in LlmErrors, io \in BOOLEAN :
       /\ chat_results' = [chat_results EXCEPT ![s] = Append(@, Err(e))]
       /\ chat_files' = LogMessage(chat_files, current_date[s], AiLabel, e, clock, s,
                                   Len(chat_inputs[s]))
       /\ Respond(s, io, "active")
       /\ Locals(s, line[s], out[s] \o LlmErrorOut(e), pending[s], request[s],
                 Some(Err(e)))
  /\ UNCHANGED <<messages, user_name, current_date, summary, clock, chat_inputs,
                 cleared>>

\* a failed completion that takes the user turn of the attempt back
LlmErr_PopsUser(s) ==
  /\ pc[s] = "awaiting"
  /\ actor' = s
  /\ ops' = ops
  /\ saved' = saved
  /\ unsaved' = unsaved
  /\ \E e \in LlmErrors, io \in BOOLEAN :
       /\ chat_results' = [chat_results EXCEPT ![s] = Append(@, Err(e))]
       /\ messages' = [messages EXCEPT ![s] = SubSeq(@, 1, Len(@) - 1)]
       /\ Respond(s, io, "active")
       /\ Locals(s, line[s], out[s] \o LlmErrorOut(e), pending[s], request[s],
                 Some(Err(e)))
  /\ UNCHANGED <<user_name, current_date, chat_files, summary, clock, chat_inputs,
                 cleared>>

\* LlmClient::chat returned Err(e)
LlmErr(s) ==
  /\ pc[s] = "awaiting"
  /\ actor' = s
  /\ ops' = ops
  /\ saved' = saved
  /\ unsaved' = unsaved
  /\ \E e \in LlmErrors, io \in BOOLEAN :
       /\ chat_results' = [chat_results EXCEPT ![s] = Append(@, Err(e))]
       /\ Respond(s, io, "active")
       /\ Locals(s, line[s], out[s] \o LlmErrorOut(e), pending[s], request[s],
                 Some(Err(e)))
  /\ UNCHANGED <<messages, user_name, current_date, chat_files, summary, clock,
                 chat_inputs, cleared>>

\* time passes
Tick ==
  /\ clock < MaxClock
  /\ clock' = clock + 1
  /\ actor' = 0
  /\ UNCHANGED <<sessionVars, chat_files, summary, ops>>

\* one step of run() for connection s
Step(s) ==
  \/ Start(s)
  \/ EmptyLine(s)
  \/ CmdQuit(s)
  \/ Eof(s)
  \/ ReadError(s)
  \/ TouchWrite(s)
  \/ CmdName(s)
  \/ NameWrite(s)
  \/ CmdNameUsage(s)
  \/ CmdClear(s)
  \/ CmdHelp(s)
  \/ CmdUnknown(s)
  \/ ChatLine(s)
  \/ LlmOk(s)
  \/ LlmErr(s)

\* one connection
Next ==
  \/ Step(1)
  \/ Tick

Spec == Init /\ [][Next]_vars

(***************************************************************************)
(* Two connections from one client address, served concurrently (main.rs   *)
(* spawns run() per connection): their steps interleave in any order.  The *)
(* clients chat and close their connections.                               *)
(***************************************************************************)
StepAppend(s) ==
  \/ Start(s)
  \/ ChatLine(s)
  \/ LlmOk(s)
  \/ LlmErr(s)
  \/ Eof(s)
  \/ TouchWrite(s)

NextAppend ==
  \/ StepAppend(1)
  \/ StepAppend(2)
  \/ Tick

SpecAppend == Init /\ [][NextAppend]_vars

(***************************************************************************)
(* Two connections from one client address whose clients set names and     *)
(* close their connections: the read-modify-write cycles of update_summary *)
(* and touch_last_seen interleave in any order.                            *)
(***************************************************************************)
StepRace(s) ==
  \/ Start(s)
  \/ CmdName(s)
  \/ NameWrite(s)
  \/ Eof(s)
  \/ TouchWrite(s)

NextRace ==
  \/ StepRace(1)
  \/ StepRace(2)
  \/ Tick

SpecRace == Init /\ [][NextRace]_vars

(***************************************************************************)
(* A connection whose client sets names, chats and leaves, and a later     *)
(* connection from the same address, accepted once run() of the first has  *)
(* returned.                                                               *)
(***************************************************************************)
StepLater(s) ==
  \/ Start(s)
  \/ CmdName(s)
  \/ NameWrite(s)
  \/ ChatLine(s)
  \/ LlmOk(s)
  \/ LlmErr(s)
  \/ CmdQuit(s)
  \/ Eof(s)
  \/ TouchWrite(s)

\* the later connection is accepted and run() reaches its loop or fails
StartLater ==
  /\ pc[1] \in {"terminated", "failed"}
  /\ Start(2)

NextLater ==
  \/ StepLater(1)
  \/ StartLater
  \/ Tick

SpecLater == Init /\ [][NextLater]_vars

(***************************************************************************)
(* The logger alone: update_summary and touch_last_seen applied to the     *)
(* summary file in any order, with any of the keys and values below.       *)
(***************************************************************************)
SummaryKeys ==
  { KeyName, <<"N","a","m","e">>, KeyLastSeen, <<"L","a","s","t","_","S","e","e","n">>,
    <<"c","i","t","y">> }
SummaryValues == { <<"A","l">>, <<"B","o">> }

\* ChatLogger::update_summary(key, value)
OpUpdateSummary ==
  /\ Len(ops) < MaxOps
  /\ \E key \in SummaryKeys, value \in SummaryValues, ok \in BOOLEAN :
       /\ IF ok
          THEN summary' = WriteOk(UpdateSummaryText(ReadOrDefault(summary), key, value,
                                                    clock))
          ELSE summary' \in WriteFailed(summary, UpdateSummaryText(
                                          ReadOrDefault(summary), key, value, clock))
       /\ ops' = Append(ops, [kind |-> "update", key |-> key, value |-> value,
                              ok |-> ok, at |-> clock])
  /\ UNCHANGED <<sessionVars, chat_files, clock, actor>>

\* ChatLogger::touch_last_seen()
OpTouchLastSeen ==
  /\ Len(ops) < MaxOps
  /\ \E ok \in BOOLEAN :
       /\ IF ok
          THEN summary' = WriteOk(TouchLastSeenText(ReadOrDefault(summary), clock))
          ELSE summary' \in WriteFailed(summary, TouchLastSeenText(
                                          ReadOrDefault(summary), clock))
       /\ ops' = Append(ops, [kind |-> "touch", key |-> <<>>, value |-> <<>>,
                              ok |-> ok, at |-> clock])
  /\ UNCHANGED <<sessionVars, chat_files, clock, actor>>

NextLog ==
  \/ OpUpdateSummary
  \/ OpTouchLastSeen
  \/ Tick

SpecLog == Init /\ [][NextLog]_vars

(***************************************************************************)
(* Properties.                                                             *)
(***************************************************************************)
Range(seq) == {seq[i] : i \in 1..Len(seq)}
Last(seq) == seq[Len(seq)]

\* connection s has built its SessionState
HasState(s) == pc[s] # "idle" /\ err[s] \notin {"mkdir", "start_marker"}

\* run() of connection s is in its loop or past it, and has not failed
Alive(s) == pc[s] \in {"active", "awaiting", "name_write", "touch_write", "terminated"}

\* the transcript lines connection s wrote, in file order
LinesBy(s) ==
  SelectSeq(chat_files[ChatFileDay(current_date[s])], LAMBDA r : r.by = s)

\* the transcript lines connection s wrote for its n-th chat line
LinesFor(s, n) == SelectSeq(LinesBy(s), LAMBDA r : r.kind = "msg" /\ r.chat = n)

\* the (key, value) pairs of a summary file, and the values stored under key
EntriesOf(file) == ParseEntries(ReadOrDefault(file))
ValuesOf(entries, key) == {e[2] : e \in {x \in Range(entries) : x[1] = key}}

\* the system turn built for name (an Option)
SystemTurn(name) == Msg("system", BuildSystemPrompt(BasePrompt, name))

\* how often the name instruction occurs in a turn's content
InstructionCount(content) ==
  Cardinality({i \in 1..Len(content) : content[i] = NameInstrHead})

\* what the chat lines of InputLines are after trimming
ExpectedChatInputs == { <<"y","o">> }

\* C1: in every state of a session that has built its conversation, whatever
\* lines were handled before, the conversation is non-empty, its turn 0 has
\* role system and every other turn has role user or assistant.
C1_ConversationShape ==
  \A s \in Conns :
    HasState(s) =>
      /\ Len(messages[s]) >= 1
      /\ messages[s][1].role = "system"
      /\ \A i \in 2..Len(messages[s]) : messages[s][i].role \in {"user", "assistant"}

\* C1 witness: after a /name, a /clear, a failed and a successful completion
C1_Witness ==
  /\ pc[1] = "active"
  /\ cleared[1]
  /\ user_name[1] = Some(<<"B","o">>)
  /\ Len(messages[1]) = 3
  /\ \E i \in 1..Len(chat_results[1]) : ~chat_results[1][i].ok

\* C2: while no /clear was issued and every completion succeeded, after N chat
\* lines the conversation is the system turn followed by N pairs of a user turn
\* holding the trimmed input and an assistant turn holding the reply to it (and
\* while the N+1st call is in flight, one more user turn holding its input).
C2_AlternatingTurns ==
  \A s \in Conns :
    (Alive(s) /\ ~cleared[s] /\ \A i \in 1..Len(chat_results[s]) : chat_results[s][i].ok)
    => LET n == Len(chat_results[s])
       IN  /\ messages[s][1].role = "system"
           /\ IF pc[s] = "awaiting"
              THEN /\ Len(messages[s]) = 2 * n + 2
                   /\ Len(chat_inputs[s]) = n + 1
                   /\ Last(messages[s]) = Msg("user", Trim(line[s]))
                   /\ Trim(line[s]) \in ExpectedChatInputs
              ELSE /\ Len(messages[s]) = 1 + 2 * n
                   /\ Len(chat_inputs[s]) = n
           /\ \A i \in 1..n :
                /\ chat_inputs[s][i] \in ExpectedChatInputs
                /\ messages[s][2 * i] = Msg("user", chat_inputs[s][i])
                /\ messages[s][2 * i + 1] = Msg("assistant", chat_results[s][i].text)

\* C2 witness: MaxChats chat lines answered, with a /name in between
C2_Witness ==
  /\ pc[1] = "active"
  /\ ~cleared[1]
  /\ Len(chat_results[1]) = MaxChats
  /\ \A i \in 1..MaxChats : chat_results[1][i].ok
  /\ Len(messages[1]) = 1 + 2 * MaxChats
  /\ user_name[1] = Some(<<"B","o">>)

\* the step in which connection s gets Err(e) from the completion service
IsLlmErrStep(s) ==
  /\ pc[s] = "awaiting"
  /\ Len(chat_results'[s]) = Len(chat_results[s]) + 1
  /\ ~Last(chat_results'[s]).ok

\* C3: when the completion call for a chat line fails, no assistant turn is
\* appended: the conversation afterwards is the one that was sent, ending with
\* the user turn of that line; the client gets an error line holding the
\* failure description, then the prompt, and the session is Active again.  The
\* session ends instead only when that write to the client fails.
C3_FailedCompletion ==
  [][\A s \in Conns :
       IsLlmErrStep(s) =>
         /\ messages'[s] = messages[s]
         /\ messages'[s] = request[s]
         /\ Last(messages'[s]) = Msg("user", Trim(line[s]))
         /\ pc'[s] \in {"active", "failed"}
         /\ pc'[s] = "failed" => err'[s] = "write"
         /\ pc'[s] = "active" =>
              /\ out'[s] = <<Thinking, "AI: Sorry, I encountered an error: ">>
                             \o Last(chat_results'[s]).text \o <<"\n", Prompt>>
              /\ result'[s] = Some(Last(chat_results'[s]))]_vars

\* C3 witness: a failed completion, then a further chat line that was answered
C3_Witness ==
  /\ pc[1] = "active"
  /\ Len(chat_results[1]) = 2
  /\ ~chat_results[1][1].ok
  /\ chat_results[1][2].ok
  /\ Len(messages[1]) = 4

\* the last completed call of connection s failed and s is back at the prompt
AfterFailedAttempt(s) ==
  /\ pc[s] = "active"
  /\ IsSome(result[s])
  /\ ~Unwrap(result[s]).ok
  /\ LineKind(line[s]) = "chat"

\* C4 as stated: after a failed attempt the transcript holds no line, neither
\* the user line nor an AI line, that this session wrote for that chat line.
C4_NothingLogged ==
  \A s \in Conns :
    AfterFailedAttempt(s) => LinesFor(s, Len(chat_results[s])) = <<>>

\* C4 amended: after a failed attempt the transcript holds exactly one line
\* that this session wrote for that chat line: the user line, logged before
\* the call; no AI line and no error line is logged.
C4_OnlyUserLineLogged ==
  \A s \in Conns :
    AfterFailedAttempt(s) =>
      LET n == Len(chat_results[s])
          logged == LinesFor(s, n)
      IN  /\ Len(logged) = 1
          /\ logged[1].content = chat_inputs[s][n]
          /\ logged[1].content = Trim(line[s])
          /\ logged[1].role # ToUpper(AiLabel)
          /\ Last(LinesBy(s)) = logged[1]

\* C4 witness: a failed attempt that follows an answered chat line
C4_Witness ==
  /\ AfterFailedAttempt(1)
  /\ Len(chat_results[1]) = 2
  /\ chat_results[1][1].ok
  /\ Len(LinesBy(1)) = 4

\* C5: after /clear the conversation is exactly one turn, the system turn built
\* for the current user name (the base prompt with the instruction naming it
\* when a name was loaded at start or set by /name, the bare base prompt
\* otherwise), whatever the conversation was before.
C5_ClearKeepsSystemTurn ==
  \A s \in Conns :
    (pc[s] = "active" /\ LineKind(line[s]) = "clear")
    => /\ messages[s] = <<SystemTurn(user_name[s])>>
       /\ IsSome(user_name[s]) => InstructionCount(messages[s][1].content) = 1
       /\ ~IsSome(user_name[s]) => messages[s][1].content = BasePrompt

\* C5 witness: /name Bo, two answered chat lines, then /clear
C5_Witness ==
  /\ pc[1] = "active"
  /\ LineKind(line[1]) = "clear"
  /\ user_name[1] = Some(<<"B","o">>)
  /\ Len(chat_results[1]) = 2
  /\ \A i \in 1..2 : chat_results[1][i].ok /\ LinesFor(1, i)[1].role = <<"B","O">>

\* C6: a session that has left its loop, through /quit, /exit, /q or through
\* end-of-input, with or without a user name, has appended its end-of-session
\* marker, and by the time run() has finished the summary holds last_seen with
\* the time of the session's end (the entry is inserted when it was absent).
C6_TerminalTransition ==
  \A s \in Conns :
    /\ pc[s] \in {"touch_write", "terminated"} =>
         /\ LinesBy(s) # <<>>
         /\ Last(LinesBy(s)).kind = "end"
         /\ Cardinality({i \in 1..Len(LinesBy(s)) : LinesBy(s)[i].kind = "end"}) = 1
    /\ pc[s] = "touch_write" =>
         /\ line[s] = <<>> \/ LineKind(line[s]) = "quit"
         /\ ValuesOf(ParseEntries(pending[s]), KeyLastSeen) = {Last(LinesBy(s)).stamp}
    /\ pc[s] = "terminated" =>
         /\ summary.exists
         /\ ValuesOf(EntriesOf(summary), KeyLastSeen) = {Last(LinesBy(s)).stamp}

\* C6 witness: a session without a user name, started with no summary file,
\* that finished after the clock had advanced
C6_Witness ==
  /\ pc[1] = "terminated"
  /\ user_name[1] = None
  /\ EntriesOf(summary) = << <<KeyLastSeen, Timestamp(1)>> >>
  /\ Len(chat_results[1]) = 1

\* the /name lines of InputLines that carry an argument, with that argument
NameLineArgs ==
  { << <<"/","n","a","m","e"," ","A","l","\n">>, <<"A","l">> >>,
    << <<"/","N","A","M","E"," "," ","B","o","\r","\n">>, <<"B","o">> >> }
NameLines == {p[1] : p \in NameLineArgs}
NameArg(l) == (CHOOSE p \in NameLineArgs : p[1] = l)[2]

\* the /name lines of InputLines that carry no argument
BareNameLines == { <<"/","n","a","m","e"," ","\n">> }

NameErrorLine == <<"\nError saving name: ", SummaryWriteError, "\n", Prompt>>

\* C7: /name X sets the user name to X and makes turn 0 the base prompt followed
\* by one instruction naming X (none for an earlier name), leaving the other
\* turns and the length of the conversation as they were; the summary write
\* that follows changes neither, and when it succeeds the summary holds
\* name = X.  /name without an argument changes neither the user name, the
\* conversation nor the summary and answers with the usage message.
C7_NameCommand ==
  [][\A s \in Conns :
       /\ (actor' = s /\ pc[s] = "active" /\ line'[s] \in NameLines) =>
            LET x == NameArg(line'[s])
            IN  /\ user_name'[s] = Some(x)
                /\ messages'[s][1] =
                     Msg("system", BasePrompt \o <<NameInstrHead>> \o x \o <<NameInstrTail>>)
                /\ InstructionCount(messages'[s][1].content) = 1
                /\ Len(messages'[s]) = Len(messages[s])
                /\ \A i \in 2..Len(messages[s]) : messages'[s][i] = messages[s][i]
                /\ pc'[s] = "name_write"
       /\ (actor' = s /\ pc[s] = "name_write") =>
            /\ messages'[s] = messages[s]
            /\ user_name'[s] = user_name[s]
            /\ pc'[s] = "active" =>
                 \/ /\ out'[s] = <<"\nName set to: ">> \o NameArg(line[s]) \o <<"\n", Prompt>>
                    /\ summary'.exists
                    /\ ValuesOf(EntriesOf(summary'), KeyName) = {NameArg(line[s])}
                 \/ out'[s] = NameErrorLine
       /\ (actor' = s /\ pc[s] = "active" /\ line'[s] \in BareNameLines) =>
            /\ pc'[s] = "active"
            /\ out'[s] = <<UsageText, Prompt>>
            /\ user_name'[s] = user_name[s]
            /\ messages'[s] = messages[s]
            /\ summary' = summary]_vars

\* C7 witness: /NAME  Bo was stored, by a session that had logged a chat line
\* under the name Al and holds its two turns
C7_Witness ==
  /\ pc[1] = "active"
  /\ line[1] \in NameLines
  /\ NameArg(line[1]) = <<"B","o">>
  /\ out[1] = <<"\nName set to: ", "B", "o", "\n", Prompt>>
  /\ Len(messages[1]) = 3
  /\ LinesFor(1, 1)[1].role = <<"A","L">>
  /\ ValuesOf(EntriesOf(summary), KeyName) = {<<"B","o">>}

\* C8: the write of the summary during /name never ends the session: when it
\* fails the client gets the 'Error saving name' line and the prompt, the
\* session is Active again and the conversation is as it was.  The session
\* ends in this step only when the write to the client fails.
C8_NameSaveFailure ==
  [][\A s \in Conns :
       (actor' = s /\ pc[s] = "name_write") =>
         /\ pc'[s] \in {"active", "failed"}
         /\ pc'[s] = "failed" => err'[s] = "write"
         /\ messages'[s] = messages[s]
         /\ (pc'[s] = "active" /\ summary' # FileOf(pending[s])) =>
              out'[s] = NameErrorLine
         /\ (pc'[s] = "active" /\ out'[s] # NameErrorLine) =>
              summary' = FileOf(pending[s])]_vars

\* C8 witness: /NAME  Bo failed to save (there is still no summary file), and a
\* chat line sent afterwards was logged under BO and answered
C8_Witness ==
  /\ pc[1] = "active"
  /\ summary = NoFile
  /\ user_name[1] = Some(<<"B","o">>)
  /\ Len(chat_results[1]) = 1
  /\ chat_results[1][1].ok
  /\ Len(messages[1]) = 3
  /\ LinesFor(1, 1)[1].role = <<"B","O">>

\* the lines of InputLines that are whitespace only, /help, /? or a command
\* that is not recognised, with the answer to each
NoOpAnswers ==
  { << <<" ","\r","\n">>, <<BarePrompt>> >>,
    << <<"/","h","e","l","p","\n">>, <<HelpText, Prompt>> >>,
    << <<"/","?","\n">>, <<HelpText, Prompt>> >>,
    << <<"/","F","o","o"," ","x","\n">>,
       <<"\nUnknown command: ", "/", "f", "o", "o", "\n", Prompt>> >> }
NoOpLines == {p[1] : p \in NoOpAnswers}
NoOpAnswer(l) == (CHOOSE p \in NoOpAnswers : p[1] = l)[2]

\* C9: a whitespace-only line, /help, /? and an unrecognised command leave the
\* conversation, the user name, the transcript and the summary as they were,
\* make no completion call, and the session is Active again with the prompt
\* sent.
C9_NoOpLines ==
  [][\A s \in Conns :
       (actor' = s /\ pc[s] = "active" /\ line'[s] \in NoOpLines) =>
         /\ pc'[s] = "active"
         /\ out'[s] = NoOpAnswer(line'[s])
         /\ Last(out'[s]) \in {Prompt, BarePrompt}
         /\ messages'[s] = messages[s]
         /\ user_name'[s] = user_name[s]
         /\ chat_files' = chat_files
         /\ summary' = summary
         /\ request'[s] = request[s]
         /\ chat_inputs'[s] = chat_inputs[s]
         /\ chat_results'[s] = chat_results[s]]_vars

\* C9 witness: an unrecognised command answered in a session that holds a name
\* and an answered chat line
C9_Witness ==
  /\ pc[1] = "active"
  /\ line[1] = <<"/","F","o","o"," ","x","\n">>
  /\ out[1] = <<"\nUnknown command: ", "/", "f", "o", "o", "\n", Prompt>>
  /\ Len(messages[1]) = 3
  /\ user_name[1] = Some(<<"B","o">>)

\* the step is a touch_last_seen() that succeeded
IsTouchStep ==
  /\ Len(ops') = Len(ops) + 1
  /\ Last(ops').kind = "touch"
  /\ Last(ops').ok

\* C10: touch_last_seen() changes only last_seen: every entry of the summary
\* keeps its place and its key, every entry other than last_seen keeps its
\* value, one entry is added exactly when last_seen was absent, and last_seen
\* holds the time of the call; a second call again changes only that value.
C10_TouchChangesOnlyLastSeen ==
  [][IsTouchStep =>
       LET before == EntriesOf(summary)
           after == EntriesOf(summary')
           had == \E i \in 1..Len(before) : before[i][1] = KeyLastSeen
       IN  /\ summary'.exists
           /\ Len(after) = Len(before) + (IF had THEN 0 ELSE 1)
           /\ \A i \in 1..Len(before) :
                /\ after[i][1] = before[i][1]
                /\ before[i][1] # KeyLastSeen => after[i][2] = before[i][2]
           /\ ValuesOf(after, KeyLastSeen) = {Timestamp(clock)}
           /\ summary'.text = FormatEntries(after)]_vars

\* C10 witness: two calls in a row at different times, on a summary that holds
\* a name
C10_Witness ==
  /\ Len(ops) = 2
  /\ \A i \in 1..2 : ops[i].kind = "touch" /\ ops[i].ok
  /\ ops[1].at # ops[2].at
  /\ EntriesOf(summary) = << <<KeyName, <<"A","l">> >>, <<KeyLastSeen, Timestamp(1)>> >>

\* the step is an update_summary(key, value) that succeeded
IsUpdateStep ==
  /\ Len(ops') = Len(ops) + 1
  /\ Last(ops').kind = "update"
  /\ Last(ops').ok

\* the places of the entries whose key equals key ignoring case
PlacesOf(entries, key) ==
  {i \in 1..Len(entries) : ToLower(entries[i][1]) = ToLower(key)}

\* the first of a non-empty set of places
First(places) == CHOOSE i \in places : \A j \in places : i <= j

\* C12 as stated: every successful update_summary(key, value), for any key,
\* leaves last_seen present with the timestamp of the call and the entry of the
\* targeted key holding value.
C12_SetsKeyAndLastSeen ==
  [][IsUpdateStep =>
       LET after == EntriesOf(summary')
           op == Last(ops')
       IN  /\ summary'.exists
           /\ ValuesOf(after, KeyLastSeen) = {Timestamp(op.at)}
           /\ PlacesOf(after, op.key) # {}
           /\ after[First(PlacesOf(after, op.key))][2] = op.value]_vars

\* C12 amended: every successful update_summary(key, value), for any key,
\* leaves last_seen present with the timestamp of the call, and the entry of
\* the targeted key holds value unless that entry is last_seen itself, which
\* holds the timestamp and not value.
C12_RefreshesLastSeen ==
  [][IsUpdateStep =>
       LET after == EntriesOf(summary')
           op == Last(ops')
           hit == First(PlacesOf(after, op.key))
       IN  /\ summary'.exists
           /\ ValuesOf(after, KeyLastSeen) = {Timestamp(op.at)}
           /\ Cardinality({i \in 1..Len(after) : after[i][1] = KeyLastSeen}) = 1
           /\ PlacesOf(after, op.key) # {}
           /\ after[hit][1] # KeyLastSeen => after[hit][2] = op.value
           /\ after[hit][1] = KeyLastSeen => after[hit][2] = Timestamp(op.at)]_vars

\* C12 witness: update_summary("city", ..) at a later time than the last_seen
\* the summary held, which is refreshed
C12_Witness ==
  /\ Len(ops) = 1
  /\ ops[1].kind = "update" /\ ops[1].ok /\ ops[1].at = 1
  /\ ops[1].key = <<"c","i","t","y">>
  /\ EntriesOf(summary) = << <<KeyName, <<"A","l">> >>, <<KeyLastSeen, Timestamp(1)>>,
                             <<ops[1].key, ops[1].value>> >>

\* no two entries have keys that are equal ignoring case
KeysUnique(entries) ==
  \A i, j \in 1..Len(entries) :
    ToLower(entries[i][1]) = ToLower(entries[j][1]) => i = j

\* C13: after every successful update_summary and touch_last_seen no two
\* entries of the summary have keys that are equal ignoring case, and an
\* update_summary whose key equals an existing entry's key ignoring case
\* changes that entry's value in place: no entry is added and every entry
\* keeps its key as stored.
C13_KeysStayUnique ==
  [][(IsUpdateStep \/ IsTouchStep) =>
       LET before == EntriesOf(summary)
           after == EntriesOf(summary')
           op == Last(ops')
       IN  /\ KeysUnique(after)
           /\ (op.kind = "update" /\ PlacesOf(before, op.key) # {}) =>
                /\ Len(after) = Len(before)
                /\ \A i \in 1..Len(before) : after[i][1] = before[i][1]
                /\ PlacesOf(after, op.key) = PlacesOf(before, op.key)]_vars

\* C15: every line and every session marker is appended to the transcript file
\* of the calendar day on which the append is performed, also by a session that
\* started on an earlier day: a step changes no file but the one of the day the
\* clock shows.
C15_AppendsToTodaysFile ==
  [][\A d \in Days : chat_files'[d] # chat_files[d] => d = DayOf(clock)]_vars

\* the lines connection s wrote to the transcript file of day d
WrittenBy(s, d) == SelectSeq(chat_files[d], LAMBDA r : r.by = s)

\* C17: a failure of the local storage ends the session.  When the log
\* directory cannot be created or the start marker cannot be written the
\* session is never Active, sends nothing to the client and builds no
\* conversation.  A session goes on only after its append succeeded: it is in
\* its loop only with its start marker written, a completion call is made only
\* for a user line that is in the transcript, and an assistant turn is stored
\* only for a reply that is in the transcript.  The step in which an append of
\* a chat line fails changes neither the transcript nor the conversation and,
\* for a user line, makes no call; after it no line is processed.
C17_StorageFailuresFatal ==
  /\ [](\A s \in Conns :
          /\ err[s] \in {"mkdir", "start_marker"} =>
               /\ pc[s] = "failed"
               /\ out[s] = <<>>
               /\ messages[s] = <<>>
               /\ \A d \in Days : WrittenBy(s, d) = <<>>
          /\ err[s] = "log" => pc[s] = "failed"
          /\ Alive(s) =>
               /\ LinesBy(s) # <<>>
               /\ LinesBy(s)[1].kind = "start"
               /\ \A n \in 1..Len(chat_inputs[s]) :
                    /\ LinesFor(s, n) # <<>>
                    /\ LinesFor(s, n)[1].content = chat_inputs[s][n]
                    /\ LinesFor(s, n)[1].role # ToUpper(AiLabel)
               /\ \A n \in 1..Len(chat_results[s]) :
                    chat_results[s][n].ok =>
                      /\ Len(LinesFor(s, n)) = 2
                      /\ LinesFor(s, n)[2].role = ToUpper(AiLabel)
                      /\ LinesFor(s, n)[2].content = chat_results[s][n].text)
  /\ [][\A s \in Conns :
          /\ (err[s] = "none" /\ err'[s] = "log") =>
               /\ pc[s] \in {"active", "awaiting"}
               /\ messages'[s] = messages[s]
               /\ chat_files' = chat_files
               /\ chat_inputs'[s] = chat_inputs[s]
               /\ pc[s] = "active" => chat_results'[s] = chat_results[s]
          /\ pc[s] = "failed" =>
               /\ pc'[s] = "failed"
               /\ err'[s] = err[s]
               /\ messages'[s] = messages[s]
               /\ chat_inputs'[s] = chat_inputs[s]
               /\ chat_results'[s] = chat_results[s]
               /\ out'[s] = out[s]
               /\ \A d \in Days : WrittenBy(s, d)' = WrittenBy(s, d)]_vars

\* C17 witness: the user line of the second chat line could not be appended,
\* after the first chat line had been logged and answered
C17_Witness ==
  /\ pc[1] = "failed"
  /\ err[1] = "log"
  /\ Len(chat_inputs[1]) = 1
  /\ Len(chat_results[1]) = 1
  /\ chat_results[1][1].ok
  /\ Len(messages[1]) = 3
  /\ Len(LinesBy(1)) = 3
  /\ out[1] = <<>>

\* the lines of InputLines that hold /quit, /exit or /q, in some letter case
QuitLines ==
  { <<"/","q","u","i","t","\n">>, <<"/","E","x","i","t","\r","\n">>, <<"/","q","\n">> }

\* connection s has left its loop by break
Terminated(s) == pc[s] \in {"touch_write", "terminated"}

\* C18: a session leaves its loop only from Active, and only by /quit, /exit
\* or /q in any letter case, after the farewell was sent, or by end-of-input,
\* with nothing sent.  Each of these lines ends it; every other line that is
\* handled without a storage or stream failure leaves it in its loop.  Once
\* the loop is left no line is read, nothing more is logged or sent and the
\* conversation and the user name never change.
C18_Termination ==
  [][\A s \in Conns :
       /\ (Terminated(s)' /\ ~Terminated(s)) =>
            /\ pc[s] = "active"
            /\ pc'[s] = "touch_write"
            /\ \/ line'[s] \in QuitLines /\ out'[s] = <<Goodbye>>
               \/ line'[s] = <<>> /\ out'[s] = <<>>
       /\ (actor' = s /\ pc[s] = "active" /\ line'[s] \in QuitLines) =>
            /\ pc'[s] = "touch_write"
            /\ out'[s] = <<Goodbye>>
       /\ (actor' = s /\ pc[s] = "active" /\ line'[s] \in InputLines \ QuitLines) =>
            pc'[s] \in {"active", "awaiting", "name_write"}
       /\ Terminated(s) =>
            /\ pc'[s] \in {"touch_write", "terminated", "failed"}
            /\ pc'[s] = "touch_write" => line'[s] = line[s] /\ out'[s] = out[s]
            /\ messages'[s] = messages[s]
            /\ user_name'[s] = user_name[s]
            /\ chat_inputs'[s] = chat_inputs[s]
            /\ chat_results'[s] = chat_results[s]
            /\ LinesBy(s)' = LinesBy(s)]_vars

\* C18 witness: /Exit ends a session that holds an answered chat line
C18_Witness ==
  /\ pc[1] = "touch_write"
  /\ line[1] = <<"/","E","x","i","t","\r","\n">>
  /\ out[1] = <<Goodbye>>
  /\ Len(messages[1]) = 3

\* the turns that follow the system turn when the chat lines inputs were sent
\* and the calls made for them ended as results: a user turn for every line,
\* followed by an assistant turn when its call succeeded
RECURSIVE TurnsOf(_, _)
TurnsOf(inputs, results) ==
  IF inputs = <<>> THEN <<>>
  ELSE <<Msg("user", Head(inputs))>>
         \o (IF results # <<>> /\ Head(results).ok
             THEN <<Msg("assistant", Head(results).text)>> ELSE <<>>)
         \o TurnsOf(Tail(inputs), IF results = <<>> THEN <<>> ELSE Tail(results))

\* how many of the calls succeeded
Succeeded(results) == Cardinality({i \in 1..Len(results) : results[i].ok})

\* C19: while no /clear was issued the user turn of every chat line stays in
\* the conversation, whether its completion succeeded or failed: the
\* conversation is the system turn, then for each chat line its user turn
\* followed by an assistant turn only when its call succeeded, so its length
\* is 1 + (chat lines) + (successful completions), and the request of a call
\* holds the user turns of the failed attempts before it.
C19_FailedUserTurnStays ==
  \A s \in Conns :
    (Alive(s) /\ ~cleared[s]) =>
      /\ Len(messages[s]) = 1 + Len(chat_inputs[s]) + Succeeded(chat_results[s])
      /\ messages[s] = <<SystemTurn(user_name[s])>>
                         \o TurnsOf(chat_inputs[s], chat_results[s])
      /\ pc[s] = "awaiting" => request[s] = messages[s]

\* C19 witness: a failed chat line followed by an answered one leaves two user
\* turns in a row before the assistant turn
C19_Witness ==
  /\ pc[1] = "active"
  /\ ~cleared[1]
  /\ Len(messages[1]) = 4
  /\ messages[1][2].role = "user"
  /\ messages[1][3].role = "user"
  /\ messages[1][4].role = "assistant"
  /\ request[1] = SubSeq(messages[1], 1, 3)

\* the end-of-session markers among the lines connection s wrote
EndMarkersBy(s) == SelectSeq(LinesBy(s), LAMBDA r : r.kind = "end")

\* the end-of-session markers in the transcript file of day d
EndMarkersIn(d) == SelectSeq(chat_files[d], LAMBDA r : r.kind = "end")

\* run() of connection s returned a fatal error from inside its loop: a chat
\* line could not be appended, or the client stream failed
FatalEnding(s) == pc[s] = "failed" /\ err[s] \in {"log", "read", "write"}

\* C20: a session that ends by a fatal error in its loop (a chat line that
\* cannot be appended, a read or write failure on the client stream) has its
\* start marker in the transcript and no end marker, and the step in which it
\* ends appends no end marker and does not run the end-of-session last_seen
\* touch (the summary changes in it only by the write of a /name, done or
\* failed);
\* an end marker is in the transcript only for a session that left its loop
\* by a quit command or by end-of-input.
C20_FatalEndingsLeaveNoEndMarker ==
  /\ [](\A s \in Conns :
          /\ FatalEnding(s) =>
               /\ LinesBy(s) # <<>>
               /\ LinesBy(s)[1].kind = "start"
               /\ EndMarkersBy(s) = <<>>
          /\ (HasState(s) /\ EndMarkersBy(s) # <<>>) =>
               \/ Terminated(s)
               \/ pc[s] = "failed" /\ err[s] = "summary")
  /\ [][\A s \in Conns :
          (FatalEnding(s)' /\ ~FatalEnding(s)) =>
            /\ \A d \in Days : EndMarkersIn(d)' = EndMarkersIn(d)
            /\ pc[s] # "name_write" => summary' = summary
            /\ pc[s] = "name_write" =>
                 \/ summary' \in {summary, FileOf(pending[s])}
                 \/ ValuesOf(EntriesOf(summary'), KeyLastSeen) = {}]_vars

\* C20 witness: a read error ends, on the next day, a session that had logged
\* an answered chat line: there is no end marker and last_seen is the old one
C20_Witness ==
  /\ pc[1] = "failed"
  /\ err[1] = "read"
  /\ clock = 1
  /\ Len(LinesBy(1)) = 3
  /\ EndMarkersBy(1) = <<>>
  /\ ValuesOf(EntriesOf(summary), KeyLastSeen) = {Timestamp(0)}

\* seq is old with lines added at its end
IsPrefix(old, seq) == Len(old) <= Len(seq) /\ SubSeq(seq, 1, Len(old)) = old

\* the place of a transcript line in the order in which a session writes its
\* lines: the start marker, then for each chat line the user line and the AI
\* line, then the end marker
WriteOrder(r) ==
  IF r.kind = "start" THEN 0
  ELSE IF r.kind = "msg" THEN 2 * r.chat + (IF r.role = ToUpper(AiLabel) THEN 1 ELSE 0)
  ELSE 2 * MaxChats + 2

\* C14: with two sessions of one address interleaving in any order, every
\* step leaves the previous content of each daily transcript file as a prefix
\* of its new content, a step of a session adds at most one line, written by
\* that session, and the lines of each session stand in the file in the order
\* in which the session wrote them.
C14_TranscriptAppendOnly ==
  /\ [][\A d \in Days :
          /\ IsPrefix(chat_files[d], chat_files'[d])
          /\ Len(chat_files'[d]) <= Len(chat_files[d]) + 1
          /\ Len(chat_files'[d]) = Len(chat_files[d]) + 1 =>
               Last(chat_files'[d]).by = actor']_vars
  /\ [](\A s \in Conns, d \in Days :
          \A i, j \in 1..Len(WrittenBy(s, d)) :
            i < j => WriteOrder(WrittenBy(s, d)[i]) < WriteOrder(WrittenBy(s, d)[j]))

\* C14 witness: the chat lines of the two sessions alternate in one file
C14_Witness ==
  \E i, j, k \in 1..Len(chat_files[0]) :
    /\ i < j /\ j < k
    /\ chat_files[0][i].kind = "msg" /\ chat_files[0][i].by = 1
    /\ chat_files[0][j].kind = "msg" /\ chat_files[0][j].by = 2
    /\ chat_files[0][k].kind = "msg" /\ chat_files[0][k].by = 1

\* connection t runs, and the last update_summary("name", ..) it made succeeded
StoredName(t) ==
  /\ IsSome(saved[t])
  /\ pc[t] \in {"active", "name_write", "touch_write", "terminated"}

\* C11: while a second connection has not started, so that every write of
\* the summary was made by the first, a name v stored by the first one's
\* /name (update_summary("name", v) returned Ok) is read back as v: the
\* summary parses to a mapping that holds name -> v, also after that
\* session's end-of-session last_seen touch; and a session that starts then
\* begins with user name v, is greeted by that name and has the instruction
\* naming v in its turn 0.
C11_NameRoundTrip ==
  /\ [](\A t, s \in Conns :
          (t # s /\ pc[s] = "idle" /\ StoredName(t)) =>
            /\ summary.exists
            /\ ValuesOf(EntriesOf(summary), KeyName) = {Unwrap(saved[t])}
            /\ Cardinality({i \in 1..Len(EntriesOf(summary)) :
                              ToLower(EntriesOf(summary)[i][1]) = KeyName}) = 1)
  /\ [][\A t, s \in Conns :
          (t # s /\ pc[s] = "idle" /\ StoredName(t) /\ pc'[s] = "active") =>
            LET v == Unwrap(saved[t])
            IN  /\ user_name'[s] = Some(v)
                /\ out'[s] = <<WelcomeBanner, "\nWelcome back, ">> \o v
                               \o <<"!\n\n", Prompt>>
                /\ messages'[s] = <<Msg("system", BasePrompt \o <<NameInstrHead>> \o v
                                                    \o <<NameInstrTail>>)>>]_vars

\* C11 witness: the first session stored Bo over the name Al it had loaded,
\* closed and refreshed last_seen on the next day; the second session, started
\* after that, is greeted as Bo
C11_Witness ==
  /\ pc[1] = "terminated"
  /\ saved[1] = Some(<<"B","o">>)
  /\ actor = 2
  /\ pc[2] = "active"
  /\ user_name[2] = Some(<<"B","o">>)
  /\ out[2] = <<WelcomeBanner, "\nWelcome back, ", "B", "o", "!\n\n", Prompt>>
  /\ EntriesOf(summary) = << <<KeyName, <<"B","o">> >>, <<KeyLastSeen, Timestamp(1)>> >>

\* C16: with two sessions of one address interleaving in any order, a step of
\* one session leaves the other session's conversation, user name and position
\* as they are, and a summary write that succeeds leaves in the file exactly
\* the text its session computed from what it had read earlier, whatever the
\* other session wrote in between (the last writer wins).
C16_LastWriterWins ==
  [][\A s \in Conns :
       actor' = s =>
         /\ \A t \in Conns \ {s} :
              /\ messages'[t] = messages[t]
              /\ user_name'[t] = user_name[t]
              /\ pc'[t] = pc[t]
              /\ line'[t] = line[t]
              /\ pending'[t] = pending[t]
         /\ (pc[s] = "touch_write" /\ pc'[s] = "terminated") =>
              summary' = FileOf(pending[s])
         /\ (pc[s] = "name_write" /\ saved'[s] = user_name[s]) =>
              summary' = FileOf(pending[s])]_vars

\* C16 witness: the lost update.  Session 1 stored the name Bo and was told so;
\* session 2, which had read the summary before that, then wrote its
\* last_seen touch: the summary holds no name, while session 1 still has Bo.
C16_Witness ==
  /\ pc[1] = "active"
  /\ saved[1] = Some(<<"B","o">>)
  /\ user_name[1] = Some(<<"B","o">>)
  /\ out[1] = <<"\nName set to: ", "B", "o", "\n", Prompt>>
  /\ InstructionCount(messages[1][1].content) = 1
  /\ pc[2] = "terminated"
  /\ actor = 2
  /\ user_name[2] = None
  /\ summary.exists
  /\ ValuesOf(EntriesOf(summary), KeyName) = {}

\* connection t logs a chat line in this step
LogsChatLine(t) == actor' = t /\ chat_inputs'[t] # chat_inputs[t]

\* a later connection s reaches its loop in this step
StartsSession(s) == actor' = s /\ pc[s] = "idle" /\ pc'[s] = "active"

\* the role of the transcript line connection t logged for its latest chat line
LatestUserRole(t) == LinesFor(t, Len(chat_inputs[t]))[1].role

\* C21 as stated: once the update_summary of /name X has failed, the session's
\* user name is X and turn 0 names X until the next /name, user lines are
\* logged under X, the summary file does not hold name = X, also after the
\* end-of-session last_seen touch, and a later session from the same address
\* does not start with the name X.
C21_FailedNameNotStored ==
  /\ [](\A t \in Conns :
          IsSome(unsaved[t]) =>
            LET x == Unwrap(unsaved[t]).name
            IN  /\ user_name[t] = Some(x)
                /\ messages[t][1] = SystemTurn(Some(x))
                /\ LoadUserName(summary) # Some(x)
                /\ x \notin ValuesOf(EntriesOf(summary), KeyName))
  /\ [][\A t \in Conns :
          IsSome(unsaved[t]) =>
            LET x == Unwrap(unsaved[t]).name
            IN  /\ LogsChatLine(t) => LatestUserRole(t)' = ToUpper(x)
                /\ \A s \in Conns \ {t} :
                     StartsSession(s) =>
                       /\ user_name'[s] # Some(x)
                       /\ messages'[s][1] # SystemTurn(Some(x))]_vars

\* C21: once the update_summary of /name X has failed, the session's user name
\* is X and turn 0 names X until the next /name, and user lines are logged
\* under X.  The failed write adds no name to the summary file: when the file
\* did not hold name = X before the command it does not hold it afterwards,
\* also after the end-of-session last_seen touch, and a later session from
\* the same address does not start with the name X; when the file held
\* name = X already (X was stored earlier) it holds X or no name afterwards,
\* and a later session starts with the name the file holds.
C21_FailedNameStaysInMemory ==
  /\ [](\A t \in Conns :
          IsSome(unsaved[t]) =>
            LET x == Unwrap(unsaved[t]).name
                held == Unwrap(unsaved[t]).held
            IN  /\ user_name[t] = Some(x)
                /\ messages[t][1] = SystemTurn(Some(x))
                /\ ~held => /\ LoadUserName(summary) # Some(x)
                            /\ x \notin ValuesOf(EntriesOf(summary), KeyName)
                /\ held => LoadUserName(summary) \in {Some(x), None})
  /\ [][\A t \in Conns :
          IsSome(unsaved[t]) =>
            LET x == Unwrap(unsaved[t]).name
                held == Unwrap(unsaved[t]).held
            IN  /\ LogsChatLine(t) => LatestUserRole(t)' = ToUpper(x)
                /\ \A s \in Conns \ {t} :
                     StartsSession(s) =>
                       /\ user_name'[s] = LoadUserName(summary)
                       /\ ~held => /\ user_name'[s] # Some(x)
                                   /\ messages'[s][1] # SystemTurn(Some(x))]_vars

\* C21 witness: the first session, greeted as Al, could not store /NAME  Bo,
\* logged its chat line under BO and ended with its last_seen touch on the
\* next day; the summary still holds the name Al, and the later session
\* started as Al, while the first one's state names Bo to the end
C21_Witness ==
  /\ pc[1] = "terminated"
  /\ unsaved[1] = Some([name |-> <<"B","o">>, held |-> FALSE])
  /\ user_name[1] = Some(<<"B","o">>)
  /\ messages[1][1] = SystemTurn(Some(<<"B","o">>))
  /\ Len(chat_inputs[1]) = 1
  /\ LinesFor(1, 1)[1].role = <<"B","O">>
  /\ EntriesOf(summary) = << <<KeyName, <<"A","l">> >>, <<KeyLastSeen, Timestamp(1)>> >>
  /\ actor = 2
  /\ pc[2] = "active"
  /\ user_name[2] = Some(<<"A","l">>)
  /\ out[2] = <<WelcomeBanner, "\nWelcome back, ", "A", "l", "!\n\n", Prompt>>
====
